---- MODULE Spec2Model ----
(***************************************************************************)
(* Model of afterparty's src/hook.rs: the Hook capability and the          *)
(* AuthenticateHook decorator, which verifies a delivery's                 *)
(* "sha1=<hex HMAC-SHA1>" signature before forwarding it to the wrapped    *)
(* hook.  Strings are sequences of bytes (Rust &str is UTF-8, and the code *)
(* slices and hashes bytes); 32-bit words are pairs <<hi16, lo16>>.        *)
(***************************************************************************)
EXTENDS Integers, Sequences, FiniteSets, TLC

(***************************************************************************)
(* ring::digest::SHA1 (FIPS 180-4), as used by hmac::SigningKey::new.      *)
(***************************************************************************)

RECURSIVE xor16(_, _, _)
xor16(a, b, n) ==
    IF n = 0 THEN 0
    ELSE ((a + b) % 2) + 2 * xor16(a \div 2, b \div 2, n - 1)

RECURSIVE and16(_, _, _)
and16(a, b, n) ==
    IF n = 0 THEN 0
    ELSE ((a % 2) * (b % 2)) + 2 * and16(a \div 2, b \div 2, n - 1)

RECURSIVE pow2(_)
pow2(n) == IF n = 0 THEN 1 ELSE 2 * pow2(n - 1)

WXor(x, y) == <<xor16(x[1], y[1], 16), xor16(x[2], y[2], 16)>>

WAnd(x, y) == <<and16(x[1], y[1], 16), and16(x[2], y[2], 16)>>

WNot(x) == <<65535 - x[1], 65535 - x[2]>>

\* a | b == ~(~a & ~b)
WOr(x, y) == WNot(WAnd(WNot(x), WNot(y)))

\* addition modulo 2^32
WAdd(x, y) ==
    LET lo == x[2] + y[2]
        hi == x[1] + y[1] + (lo \div 65536)
    IN  <<hi % 65536, lo % 65536>>

\* rotate left by n bits, 0 < n < 32
WRotl(x, n) ==
    LET y == IF n >= 16 THEN <<x[2], x[1]>> ELSE x
        k == IF n >= 16 THEN n - 16 ELSE n
    IN  <<((y[1] * pow2(k)) % 65536) + (y[2] \div pow2(16 - k)),
          ((y[2] * pow2(k)) % 65536) + (y[1] \div pow2(16 - k))>>

Sha1InitialState ==
    << <<26437, 8961>>, <<61389, 43913>>, <<39098, 56574>>,
       <<4146, 21622>>, <<50130, 57840>> >>

Sha1K(t) ==
    IF t <= 20 THEN <<23170, 31129>>
    ELSE IF t <= 40 THEN <<28377, 60321>>
    ELSE IF t <= 60 THEN <<36635, 48348>>
    ELSE <<51810, 49622>>

Sha1F(t, b, c, d) ==
    IF t <= 20 THEN WOr(WAnd(b, c), WAnd(WNot(b), d))
    ELSE IF t <= 40 THEN WXor(WXor(b, c), d)
    ELSE IF t <= 60 THEN WOr(WOr(WAnd(b, c), WAnd(b, d)), WAnd(c, d))
    ELSE WXor(WXor(b, c), d)

\* message padding: 0x80, zeros up to 56 mod 64, 64-bit big-endian bit length
Sha1Pad(m) ==
    LET L == Len(m)
        z == (119 - (L % 64)) % 64
        bits == 8 * L
    IN  m \o <<128>> \o [i \in 1..z |-> 0] \o <<0, 0, 0, 0>>
          \o <<(bits \div 16777216) % 256, (bits \div 65536) % 256,
               (bits \div 256) % 256, (bits % 256)>>

\* the 16 big-endian words of the 64-byte block starting after byte `off`
Sha1BlockWords(m, off) ==
    [i \in 1..16 |->
        <<m[off + 4 * i - 3] * 256 + m[off + 4 * i - 2],
          m[off + 4 * i - 1] * 256 + m[off + 4 * i]>>]

RECURSIVE Sha1Schedule(_)
Sha1Schedule(w) ==
    IF Len(w) = 80 THEN w
    ELSE LET t == Len(w) + 1
             x == WXor(WXor(w[t - 3], w[t - 8]), WXor(w[t - 14], w[t - 16]))
         IN  Sha1Schedule(Append(w, WRotl(x, 1)))

\* one round on <<a, b, c, d, e, t>>, t the round number (1..80)
Sha1Round(v, w) ==
    LET t == v[6]
        temp == WAdd(WAdd(WAdd(WRotl(v[1], 5), Sha1F(t, v[2], v[3], v[4])),
                          WAdd(v[5], Sha1K(t))), w[t])
    IN  <<temp, v[1], WRotl(v[2], 30), v[3], v[4], t + 1>>

RECURSIVE Sha1Rounds(_, _)
Sha1Rounds(v, w) ==
    IF v[6] > 80 THEN v ELSE Sha1Rounds(Sha1Round(v, w), w)

Sha1Compress(h, m, off) ==
    LET w == Sha1Schedule(Sha1BlockWords(m, off))
        v == Sha1Rounds(<<h[1], h[2], h[3], h[4], h[5], 1>>, w)
    IN  [i \in 1..5 |-> WAdd(h[i], v[i])]

RECURSIVE Sha1Blocks(_, _, _)
Sha1Blocks(h, m, off) ==
    IF off >= Len(m) THEN h
    ELSE Sha1Blocks(Sha1Compress(h, m, off), m, off + 64)

\* the 20-byte digest of the byte string m
Sha1(m) ==
    LET h == Sha1Blocks(Sha1InitialState, Sha1Pad(m), 0)
    IN  [i \in 1..20 |->
            LET word == h[(i + 3) \div 4]
                half == IF ((i - 1) % 4) < 2 THEN word[1] ELSE word[2]
            IN  IF i % 2 = 1 THEN half \div 256 ELSE half % 256]

(***************************************************************************)
(* ring::hmac with digest::SHA1 (RFC 2104, block length 64).               *)
(***************************************************************************)

\* hmac::SigningKey::new(&digest::SHA1, key_value): the key block; a key
\* longer than the block is hashed first, a shorter one is zero-padded.
SigningKey_new(key_value) ==
    LET k == IF Len(key_value) > 64 THEN Sha1(key_value) ELSE key_value
    IN  [i \in 1..64 |-> IF i <= Len(k) THEN k[i] ELSE 0]

\* hmac::sign(&key, data): H((key ^ opad) || H((key ^ ipad) || data))
hmac_sha1(key, data) ==
    LET ipad == [i \in 1..64 |-> xor16(key[i], 54, 8)]
        opad == [i \in 1..64 |-> xor16(key[i], 92, 8)]
    IN  Sha1(opad \o Sha1(ipad \o data))

(***************************************************************************)
(* The hex crate: ToHex::write_hex and FromHex for Vec<u8>.                *)
(***************************************************************************)

\* Option<T>: None is the empty sequence, Some(x) the one-element sequence
None == <<>>

Some(x) == <<x>>

HexDigit(n) == IF n < 10 THEN 48 + n ELSE 87 + n

\* write_hex: two lowercase hex digits per byte
write_hex(bytes) ==
    [i \in 1..(2 * Len(bytes)) |->
        IF i % 2 = 1 THEN HexDigit(bytes[(i + 1) \div 2] \div 16)
        ELSE HexDigit(bytes[i \div 2] % 16)]

\* value of one hex digit, -1 for any other byte
HexVal(c) ==
    IF c \in 65..70 THEN c - 55
    ELSE IF c \in 97..102 THEN c - 87
    ELSE IF c \in 48..57 THEN c - 48
    ELSE -1

\* Vec::from_hex(s) as in hex 0.3.2 (odd length and any non-hex byte are
\* errors, both letter cases are digits): None stands for Err(_), Some(bytes)
\* for Ok(bytes)
from_hex(s) ==
    IF Len(s) % 2 # 0 THEN None
    ELSE IF \E i \in 1..Len(s) : HexVal(s[i]) = -1 THEN None
    ELSE Some([i \in 1..(Len(s) \div 2) |->
                  16 * HexVal(s[2 * i - 1]) + HexVal(s[2 * i])])

(***************************************************************************)
(* Inputs: secrets, payloads and signature strings the decorator is run on *)
(***************************************************************************)

\* "secret"
Secret == <<115, 101, 99, 114, 101, 116>>

\* "wrong-secret"
WrongSecret == <<119, 114, 111, 110, 103, 45, 115, 101, 99, 114, 101, 116>>

\* "secret\0"
SecretNul == Secret \o <<0>>

Secrets == {Secret, WrongSecret, SecretNul}

\* {"zen": "Approachable is better than simple."}
ZenPayload ==
    <<123, 34, 122, 101, 110, 34, 58, 32, 34, 65, 112, 112, 114, 111, 97, 99,
      104, 97, 98, 108, 101, 32, 105, 115, 32, 98, 101, 116, 116, 101, 114, 32,
      116, 104, 97, 110, 32, 115, 105, 109, 112, 108, 101, 46, 34, 125>>

\* the same with the final '.' replaced by '!'
MutatedPayload == [ZenPayload EXCEPT ![44] = 33]

\* the same with the first '{' replaced by '['
BracketPayload == [ZenPayload EXCEPT ![1] = 91]

Payloads == {ZenPayload, MutatedPayload, BracketPayload}

\* the tags of the model's keys and payloads, computed once
SignTable ==
    {<<SigningKey_new(s), p, hmac_sha1(SigningKey_new(s), p)>> :
        s \in Secrets, p \in Payloads}

\* hmac::sign(&key, data), looked up in SignTable where it holds the pair
sign(key, data) ==
    IF \E e \in SignTable : e[1] = key /\ e[2] = data
    THEN (CHOOSE e \in SignTable : e[1] = key /\ e[2] = data)[3]
    ELSE hmac_sha1(key, data)

\* mutant: only the length of the presented tag is checked
verify_length_only(key, data, signature) == Len(signature) = 20

\* hmac::verify_with_own_key(&key, data, signature).is_ok(): the computed
\* tag equals the presented one (slices of different length are unequal)
verify_with_own_key(key, data, signature) ==
    /\ Len(signature) = 20
    /\ sign(key, data) = signature

(***************************************************************************)
(* AuthenticateHook::authenticate                                          *)
(***************************************************************************)

\* the index of `signature[5..signature.len()]`
PrefixLen == 5

\* str::is_char_boundary(i): i is 0, the length, or not inside a UTF-8
\* sequence (the byte at i is no continuation byte 0x80..0xBF)
is_char_boundary(s, i) ==
    \/ i = 0
    \/ i = Len(s)
    \/ i < Len(s) /\ s[i + 1] \notin 128..191

\* `&signature[5..signature.len()]` panics when 5 exceeds the length or is
\* not a char boundary; None stands for the panic
slice_from(s, begin) ==
    IF begin <= Len(s) /\ is_char_boundary(s, begin)
    THEN Some(SubSeq(s, begin + 1, Len(s)))
    ELSE None

\* mutant: the Err(_) arm yields true
verify_signature_err_true(secret, payload, sans_prefix) ==
    LET decoded == from_hex(sans_prefix)
    IN  IF decoded # None
        THEN verify_with_own_key(SigningKey_new(secret), payload, decoded[1])
        ELSE TRUE

\* the match on Vec::from_hex(sans_prefix)
verify_signature(secret, payload, sans_prefix) ==
    LET decoded == from_hex(sans_prefix)
    IN  IF decoded # None
        THEN verify_with_own_key(SigningKey_new(secret), payload, decoded[1])
        ELSE FALSE

\* mutant: the prefix is cut one byte short (signature[4..])
authenticate_off_by_one(secret, payload, signature) ==
    LET sans_prefix == slice_from(signature, PrefixLen - 1)
    IN  IF sans_prefix = None THEN "panic"
        ELSE IF verify_signature(secret, payload, sans_prefix[1]) THEN "true"
        ELSE "false"

\* mutant: the key is the literal "secret", not self.secret
authenticate_fixed_key(secret, payload, signature) ==
    LET sans_prefix == slice_from(signature, PrefixLen)
    IN  IF sans_prefix = None THEN "panic"
        ELSE IF verify_signature(<<115, 101, 99, 114, 101, 116>>, payload,
                                 sans_prefix[1]) THEN "true"
        ELSE "false"

\* "true" | "false" for the returned bool, "panic" when the slice panics
authenticate(secret, payload, signature) ==
    LET sans_prefix == slice_from(signature, PrefixLen)
    IN  IF sans_prefix = None THEN "panic"
        ELSE IF verify_signature(secret, payload, sans_prefix[1]) THEN "true"
        ELSE "false"

\* the signature built by tests::authenticate_signatures
test_signature(secret, payload) ==
    <<115, 104, 97, 49, 61>> \o write_hex(sign(SigningKey_new(secret), payload))

ValidSignatures == {test_signature(s, p) : s \in Secrets, p \in Payloads}

ZenHex == write_hex(sign(SigningKey_new(Secret), ZenPayload))

\* "SHA1=" and the right digest
OtherPrefixSignature == <<83, 72, 65, 49, 61>> \o ZenHex

\* "sha1=" and the right digest in uppercase hex
UpperSignature ==
    <<115, 104, 97, 49, 61>>
      \o [i \in 1..Len(ZenHex) |->
            IF ZenHex[i] \in 97..102 THEN ZenHex[i] - 32 ELSE ZenHex[i]]

\* the last hex digit replaced by 'g'
NonHexSignature == <<115, 104, 97, 49, 61>> \o [ZenHex EXCEPT ![40] = 103]

\* the last hex digit dropped
OddSignature == <<115, 104, 97, 49, 61>> \o SubSeq(ZenHex, 1, 39)

\* the last byte of the digest dropped
ShortDigestSignature == <<115, 104, 97, 49, 61>> \o SubSeq(ZenHex, 1, 38)

\* "sha1"
ShortSignature == <<115, 104, 97, 49>>

EmptySignature == <<>>

\* "sha1" with a two-byte character (U+00E9) across byte index 5
BoundarySignature == <<115, 104, 97, 49, 195, 169>> \o ZenHex

MalformedSignatures ==
    {OtherPrefixSignature, UpperSignature, NonHexSignature, OddSignature,
     ShortDigestSignature, ShortSignature, EmptySignature, BoundarySignature}

Signatures == ValidSignatures \cup MalformedSignatures

\* struct Delivery: the fields hook.rs reads
Deliveries ==
    [unparsed_payload : Payloads,
     signature : {None} \cup {Some(x) : x \in Signatures}]

\* the deliveries of the concurrent runs
ConcurrentDeliveries ==
    [unparsed_payload : {ZenPayload},
     signature : {None, Some(test_signature(Secret, ZenPayload)),
                  Some(test_signature(WrongSecret, ZenPayload)),
                  Some(NonHexSignature), Some(ShortSignature)}]

Hooks == {"hookA", "hookB"}

\* number of threads sharing the decorator
NThreads == 2

Threads == 1..NThreads

NoDelivery == [unparsed_payload |-> <<>>, signature |-> None]

(***************************************************************************)
(* State                                                                   *)
(***************************************************************************)

VARIABLES
    secret,         \* AuthenticateHook.secret
    hook,           \* AuthenticateHook.hook, the wrapped hook
    pc,             \* per thread: position in its handle call
    delivery,       \* per thread: the delivery handle was called with
    authenticated,  \* per thread: what authenticate returned
    forwarded,      \* per thread: deliveries passed to the wrapped hook by this call
    diagnostics,    \* per thread: error! records emitted by this call
    invoked         \* per hook: every delivery it was ever invoked with

vars == <<secret, hook, pc, delivery, authenticated, forwarded, diagnostics, invoked>>

\* AuthenticateHook::new(secret, hook); no handle call has been made
Init ==
    /\ secret \in Secrets
    /\ hook \in Hooks
    /\ pc = [t \in Threads |-> "idle"]
    /\ delivery = [t \in Threads |-> NoDelivery]
    /\ authenticated = [t \in Threads |-> "none"]
    /\ forwarded = [t \in Threads |-> <<>>]
    /\ diagnostics = [t \in Threads |-> 0]
    /\ invoked = [h \in Hooks |-> {}]

\* the caller invokes handle(&self, delivery) on thread t
Receive(t, d) ==
    /\ pc[t] = "idle"
    /\ pc' = [pc EXCEPT ![t] = "handle"]
    /\ delivery' = [delivery EXCEPT ![t] = d]
    /\ UNCHANGED <<secret, hook, authenticated, forwarded, diagnostics, invoked>>

\* mutant: a delivery without a signature skips the check and is dispatched
handle_authenticate_skip(t) ==
    /\ pc[t] = "handle"
    /\ LET r == IF delivery[t].signature = None THEN "true"
                ELSE authenticate(secret, delivery[t].unparsed_payload,
                                  delivery[t].signature[1])
       IN  /\ authenticated' = [authenticated EXCEPT ![t] = r]
           /\ pc' = [pc EXCEPT ![t] =
                       IF r = "panic" THEN "panicked" ELSE "dispatch"]
    /\ UNCHANGED <<secret, hook, delivery, forwarded, diagnostics, invoked>>

\* `if let Some(sig) = delivery.signature` and the call of authenticate
handle_authenticate(t) ==
    /\ pc[t] = "handle"
    /\ IF delivery[t].signature = None
       THEN /\ pc' = [pc EXCEPT ![t] = "returned"]
            /\ UNCHANGED authenticated
       ELSE LET r == authenticate(secret, delivery[t].unparsed_payload,
                                  delivery[t].signature[1])
            IN  /\ authenticated' = [authenticated EXCEPT ![t] = r]
                /\ pc' = [pc EXCEPT ![t] =
                            IF r = "panic" THEN "panicked" ELSE "dispatch"]
    /\ UNCHANGED <<secret, hook, delivery, forwarded, diagnostics, invoked>>

\* <F as Hook>::handle: the wrapped closure is called with the delivery
Hook_handle(t, h, d) ==
    /\ forwarded' = [forwarded EXCEPT ![t] = Append(@, d)]
    /\ invoked' = [invoked EXCEPT ![h] = @ \cup {d}]

\* mutant: the delivery is rebuilt without its signature before forwarding
handle_dispatch_rebuilt(t) ==
    /\ pc[t] = "dispatch"
    /\ IF authenticated[t] = "true"
       THEN /\ Hook_handle(t, hook, [delivery[t] EXCEPT !.signature = None])
            /\ UNCHANGED diagnostics
       ELSE /\ diagnostics' = [diagnostics EXCEPT ![t] = @ + 1]
            /\ UNCHANGED <<forwarded, invoked>>
    /\ pc' = [pc EXCEPT ![t] = "returned"]
    /\ UNCHANGED <<secret, hook, delivery, authenticated>>

\* mutant: the result of authenticate is kept in a field shared by all calls
handle_dispatch_shared(t) ==
    /\ pc[t] = "dispatch"
    /\ \E u \in Threads :
        /\ pc[u] = "dispatch"
        /\ IF authenticated[u] = "true"
           THEN /\ Hook_handle(t, hook, delivery[t])
                /\ UNCHANGED diagnostics
           ELSE /\ diagnostics' = [diagnostics EXCEPT ![t] = @ + 1]
                /\ UNCHANGED <<forwarded, invoked>>
    /\ pc' = [pc EXCEPT ![t] = "returned"]
    /\ UNCHANGED <<secret, hook, delivery, authenticated>>

\* the two arms: self.hook.handle(delivery), or error!(...)
handle_dispatch(t) ==
    /\ pc[t] = "dispatch"
    /\ IF authenticated[t] = "true"
       THEN /\ Hook_handle(t, hook, delivery[t])
            /\ UNCHANGED diagnostics
       ELSE /\ diagnostics' = [diagnostics EXCEPT ![t] = @ + 1]
            /\ UNCHANGED <<forwarded, invoked>>
    /\ pc' = [pc EXCEPT ![t] = "returned"]
    /\ UNCHANGED <<secret, hook, delivery, authenticated>>

\* handle has returned to its caller; the thread is free for the next call
Return(t) ==
    /\ pc[t] = "returned"
    /\ pc' = [pc EXCEPT ![t] = "idle"]
    /\ delivery' = [delivery EXCEPT ![t] = NoDelivery]
    /\ authenticated' = [authenticated EXCEPT ![t] = "none"]
    /\ forwarded' = [forwarded EXCEPT ![t] = <<>>]
    /\ diagnostics' = [diagnostics EXCEPT ![t] = 0]
    /\ UNCHANGED <<secret, hook, invoked>>

\* one caller: handle calls one after another, on every delivery
Next ==
    \/ \E d \in Deliveries : Receive(1, d)
    \/ handle_authenticate(1)
    \/ handle_dispatch(1)
    \/ Return(1)

Spec == Init /\ [][Next]_vars

\* NThreads callers sharing the decorator (Hook: Send + Sync)
NextConcurrent ==
    \E t \in Threads :
        \/ \E d \in ConcurrentDeliveries : Receive(t, d)
        \/ handle_authenticate(t)
        \/ handle_dispatch(t)
        \/ Return(t)

SpecConcurrent == Init /\ [][NextConcurrent]_vars

(***************************************************************************)
(* What one handle call does to one delivery, taken on its own             *)
(***************************************************************************)

\* <AuthenticateHook as Hook>::handle(&self, delivery) with self.secret = s
handle(s, d) ==
    IF d.signature = None
    THEN [outcome |-> "rejected", forwarded |-> <<>>, diagnostics |-> 0]
    ELSE LET r == authenticate(s, d.unparsed_payload, d.signature[1])
         IN  IF r = "panic"
             THEN [outcome |-> "panicked", forwarded |-> <<>>, diagnostics |-> 0]
             ELSE IF r = "true"
             THEN [outcome |-> "forwarded", forwarded |-> <<d>>, diagnostics |-> 0]
             ELSE [outcome |-> "rejected", forwarded |-> <<>>, diagnostics |-> 1]

(***************************************************************************)
(* Properties                                                              *)
(***************************************************************************)

\* the handle call of thread t has ended
Done(t) == pc[t] \in {"returned", "panicked"}

Sig(t) == delivery[t].signature

Payload(t) == delivery[t].unparsed_payload

\* what the ended call of thread t did
Result(t) ==
    [outcome |-> IF pc[t] = "panicked" THEN "panicked"
                 ELSE IF forwarded[t] # <<>> THEN "forwarded"
                 ELSE "rejected",
     forwarded |-> forwarded[t],
     diagnostics |-> diagnostics[t]]

HexDigits == (48..57) \cup (65..70) \cup (97..102)

\* x is no hex encoding: odd length, or a byte that is no hex digit
NotHex(x) == Len(x) % 2 = 1 \/ \E i \in 1..Len(x) : x[i] \notin HexDigits

DiffersInOneByte(p, q) ==
    /\ Len(p) = Len(q)
    /\ Cardinality({i \in 1..Len(p) : p[i] # q[i]}) = 1

\* C1: a delivery signed "sha1=" + lowercase hex of HMAC-SHA1(secret, payload)
\* authenticates against the decorator holding that secret, and its handle
\* call ends forwarded.
C1_ValidSignatureForwards ==
    \A t \in Threads :
        (Done(t) /\ Sig(t) = Some(test_signature(secret, Payload(t))))
            => /\ pc[t] = "returned"
               /\ authenticated[t] = "true"
               /\ forwarded[t] = <<delivery[t]>>

C1_Witness ==
    \E t \in Threads :
        /\ pc[t] = "returned"
        /\ Sig(t) = Some(test_signature(secret, Payload(t)))
        /\ authenticated[t] = "true"
        /\ forwarded[t] = <<delivery[t]>>

\* C2: after any sequence of handle calls, no hook has been invoked with a
\* delivery whose signature is None.
C2_NoSignatureNeverForwarded ==
    /\ \A h \in Hooks : \A d \in invoked[h] : d.signature # None
    /\ \A t \in Threads : Sig(t) = None => forwarded[t] = <<>>

C2_Witness ==
    \E t \in Threads :
        /\ pc[t] = "returned"
        /\ Payload(t) = ZenPayload
        /\ Sig(t) = None
        /\ forwarded[t] = <<>>
        /\ invoked[hook] # {}

\* C3: handle never panics: every call ends returned, whatever the signature
\* string is.
C3_NeverPanics == \A t \in Threads : pc[t] # "panicked"

\* C4 as stated: a signature made with any secret other than the decorator's
\* fails authentication and the delivery is not forwarded.
C4_DistinctSecretRejected ==
    \A t \in Threads : \A s1 \in Secrets :
        (Done(t) /\ s1 # secret /\ Sig(t) = Some(test_signature(s1, Payload(t))))
            => authenticated[t] = "false" /\ forwarded[t] = <<>>

\* C4 amended: a signature made with a secret that is a different HMAC key
\* from the decorator's (the two differ after key preparation, i.e. by more
\* than trailing NUL bytes) fails authentication and is not forwarded.
C4_DistinctKeyRejected ==
    \A t \in Threads : \A s1 \in Secrets :
        (/\ Done(t)
         /\ SigningKey_new(s1) # SigningKey_new(secret)
         /\ Sig(t) = Some(test_signature(s1, Payload(t))))
            => authenticated[t] = "false" /\ forwarded[t] = <<>>

C4_Witness ==
    \E t \in Threads :
        /\ pc[t] = "returned"
        /\ secret = WrongSecret
        /\ Payload(t) = ZenPayload
        /\ Sig(t) = Some(test_signature(Secret, ZenPayload))
        /\ authenticated[t] = "false"
        /\ forwarded[t] = <<>>
        /\ invoked[hook] = {}

C6_ForwardedOnceUnchanged ==
    /\ \A t \in Threads :
        Done(t) =>
            IF Sig(t) # None
               /\ authenticate(secret, Payload(t), Sig(t)[1]) = "true"
            THEN forwarded[t] = <<delivery[t]>> /\ delivery[t] \in invoked[hook]
            ELSE forwarded[t] = <<>>
    /\ \A h \in Hooks \ {hook} : invoked[h] = {}
    /\ \A d \in invoked[hook] :
        d.signature # None
        /\ authenticate(secret, d.unparsed_payload, d.signature[1]) = "true"

C6_Witness ==
    \E t \in Threads :
        /\ pc[t] = "returned"
        /\ Payload(t) = MutatedPayload
        /\ forwarded[t] = <<delivery[t]>>
        /\ invoked[hook] = {delivery[t]}

\* C7: only the signature "sha1=" + lowercase hex of the digest is
\* forwarded; any other string, even one whose hex part encodes the right
\* digest, is not.
C7_OnlyCanonicalFormat ==
    \A t \in Threads :
        (Done(t) /\ Sig(t) # None
         /\ Sig(t)[1] # test_signature(secret, Payload(t)))
            => forwarded[t] = <<>>

\* C8: a signature computed over a payload that differs in one byte from
\* the delivered payload fails authentication and is not forwarded.
C8_MutatedPayloadRejected ==
    \A t \in Threads : \A p \in Payloads :
        (/\ Done(t)
         /\ DiffersInOneByte(p, Payload(t))
         /\ Sig(t) = Some(test_signature(secret, p)))
            => authenticated[t] = "false" /\ forwarded[t] = <<>>

C8_Witness ==
    \E t \in Threads :
        /\ pc[t] = "returned"
        /\ Payload(t) = MutatedPayload
        /\ Sig(t) = Some(test_signature(secret, ZenPayload))
        /\ authenticated[t] = "false"
        /\ diagnostics[t] = 1
        /\ forwarded[t] = <<>>

\* C9: a call whose signature is present and does not authenticate returns
\* with exactly one error diagnostic and nothing forwarded; any other call
\* emits no diagnostic.
C9_DiagnosticOnFailure ==
    \A t \in Threads :
        Done(t) =>
            IF Sig(t) # None
               /\ authenticate(secret, Payload(t), Sig(t)[1]) # "true"
            THEN pc[t] = "returned" /\ diagnostics[t] = 1 /\ forwarded[t] = <<>>
            ELSE diagnostics[t] = 0

\* C10: under any interleaving of concurrent handle calls the secret and
\* the wrapped hook never change, and every call does exactly what handling
\* its delivery alone does.
C10_ConcurrentCallsIndependent ==
    /\ [](\A t \in Threads :
            /\ pc[t] = "dispatch" =>
                authenticated[t] = authenticate(secret, Payload(t), Sig(t)[1])
            /\ Done(t) => Result(t) = handle(secret, delivery[t]))
    /\ [][secret' = secret /\ hook' = hook]_vars

C10_Witness ==
    \E t \in Threads : \E u \in Threads \ {t} :
        /\ pc[t] = "returned" /\ forwarded[t] = <<delivery[t]>>
        /\ pc[u] = "dispatch" /\ authenticated[u] = "false"
        /\ delivery[u] # delivery[t]

====
